---- MODULE Spec2Model ----
(***************************************************************************)
(* Model of part-3.py: a function `test` whose parameter defaults to the   *)
(* list returned by arr().  Python evaluates the default expression once,  *)
(* when the `def test` statement is executed, stores the resulting object  *)
(* in the function, and binds the parameter to that same object on every   *)
(* call that omits the argument.  Lists are heap objects passed by         *)
(* reference; list.append mutates the object in place.                     *)
(*                                                                         *)
(* The script is a sequence of calls to test.  The model executes a        *)
(* program `prog` drawn from all well-formed call sequences of at most     *)
(* MaxCalls calls; the driver of part-3.py (lines 10-12) is one of them.   *)
(***************************************************************************)
EXTENDS Integers, Sequences, FiniteSets, TLC

VARIABLES prog, pc, ip, heap, defaults, arrCalls, received, out, ret, err

vars == <<prog, pc, ip, heap, defaults, arrCalls, received, out, ret, err>>

\* Longest call sequence explored.
MaxCalls == 3

\* Contents of the list literals a caller may pass explicitly.
Literals == { <<8, 9, 10>>, <<1, 2, 3>>, <<>> }

(***************************************************************************)
(* Objects and built-ins                                                   *)
(***************************************************************************)

ListObj(s) == [type |-> "list", items |-> s]

IntObj(n) == [type |-> "int", items |-> <<n>>]

\* Mutant: arr returns a tuple, which has no append method.
arrTuple == [type |-> "tuple", items |-> <<1, 2, 3>>]

\* def arr(): return [1,2,3]   -- a new list object on every invocation
arr == ListObj(<<1, 2, 3>>)

RECURSIVE join(_)
\* ", ".join(str(x) for x in s)
join(s) ==
  IF s = <<>> THEN ""
  ELSE IF Len(s) = 1 THEN ToString(s[1])
  ELSE ToString(s[1]) \o ", " \o join(Tail(s))

\* str(list): what print(a) writes for a list of integers
repr(s) == "[" \o join(s) \o "]"

\* Mutant: the element is inserted at the front instead of the end.
appendFront(s, x) == <<x>> \o s

\* list.append(x)
append(s, x) == Append(s, x)

\* Mutant: prints before appending.
testPrintFirst(h, o) ==
  IF h[o].type = "list"
    THEN [heap |-> [h EXCEPT ![o].items = append(@, 4)],
          line |-> <<repr(h[o].items)>>,
          ret  |-> "None",
          err  |-> "none"]
    ELSE [heap |-> h, line |-> <<>>, ret |-> "unset", err |-> "AttributeError"]

\* Body of test with parameter a bound to heap object o:
\*   a.append(4); print(a)
\* A non-list object has no append attribute: AttributeError, nothing printed.
test(h, o) ==
  IF h[o].type = "list"
    THEN LET h2 == [h EXCEPT ![o].items = append(@, 4)]
         IN [heap |-> h2,
             line |-> <<repr(h2[o].items)>>,
             ret  |-> "None",
             err  |-> "none"]
    ELSE [heap |-> h, line |-> <<>>, ret |-> "unset", err |-> "AttributeError"]

(***************************************************************************)
(* Programs: sequences of call statements                                  *)
(*   omit    test()                                                        *)
(*   lit     x_i = [..]; test(x_i)     a new list instance                 *)
(*   again   test(x_j)                 the instance created by statement j *)
(*   nonlist test(5)                                                       *)
(***************************************************************************)

Omit == [kind |-> "omit", val |-> <<>>, idx |-> 0]

Lit(s) == [kind |-> "lit", val |-> s, idx |-> 0]

Again(j) == [kind |-> "again", val |-> <<>>, idx |-> j]

NonList == [kind |-> "nonlist", val |-> <<>>, idx |-> 0]

Stmts == {Omit, NonList} \cup {Lit(s) : s \in Literals}
           \cup {Again(j) : j \in 1..MaxCalls}

WellFormed(p) ==
  \A i \in DOMAIN p :
    p[i].kind = "again" => (p[i].idx < i /\ p[p[i].idx].kind = "lit")

Programs ==
  {p \in UNION {[1..n -> Stmts] : n \in 0..MaxCalls} : WellFormed(p)}

\* Lines 10-12: test(); test([8,9,10]); test()
Driver == <<Omit, Lit(<<8, 9, 10>>), Omit>>

(***************************************************************************)
(* State machine                                                           *)
(***************************************************************************)

Init ==
  /\ prog \in Programs
  /\ pc = "def_arr"
  /\ ip = 1
  /\ heap = <<>>
  /\ defaults = 0
  /\ arrCalls = 0
  /\ received = <<>>
  /\ out = <<>>
  /\ ret = "unset"
  /\ err = "none"

\* Line 3: def arr() binds the name; nothing is evaluated.
DefArr ==
  /\ pc = "def_arr"
  /\ pc' = "def_test"
  /\ UNCHANGED <<prog, ip, heap, defaults, arrCalls, received, out, ret, err>>

\* Line 6: def test(a = arr()) evaluates arr() now and stores the object
\* as the function's default.
DefTest ==
  /\ pc = "def_test"
  /\ heap' = Append(heap, arr)
  /\ defaults' = Len(heap) + 1
  /\ arrCalls' = arrCalls + 1
  /\ pc' = "call"
  /\ UNCHANGED <<prog, ip, received, out, ret, err>>

\* Runs the body of test on object o of heap h and moves to the next statement
\* (or stops with the uncaught exception).
Invoke(h, o) ==
  LET r == test(h, o) IN
  /\ heap' = r.heap
  /\ out' = out \o r.line
  /\ ret' = r.ret
  /\ err' = r.err
  /\ received' = Append(received, o)
  /\ IF r.err = "none"
       THEN pc' = "call" /\ ip' = ip + 1
       ELSE pc' = "error" /\ ip' = ip
  /\ UNCHANGED prog

AtStmt(k) == pc = "call" /\ ip <= Len(prog) /\ prog[ip].kind = k

\* Mutant: the default expression is evaluated at every call.
CallOmittedFresh ==
  /\ AtStmt("omit")
  /\ Invoke(Append(heap, arr), Len(heap) + 1)
  /\ arrCalls' = arrCalls + 1
  /\ defaults' = Len(heap) + 1

\* test(): a is bound to the stored default object.
CallOmitted ==
  /\ AtStmt("omit")
  /\ Invoke(heap, defaults)
  /\ UNCHANGED <<defaults, arrCalls>>

\* Mutant: the explicit argument is remembered as the new default.
CallLiteralSticky ==
  /\ AtStmt("lit")
  /\ Invoke(Append(heap, ListObj(prog[ip].val)), Len(heap) + 1)
  /\ defaults' = Len(heap) + 1
  /\ UNCHANGED arrCalls

\* test([..]): the list display builds a new object; a is bound to it.
CallLiteral ==
  /\ AtStmt("lit")
  /\ Invoke(Append(heap, ListObj(prog[ip].val)), Len(heap) + 1)
  /\ UNCHANGED <<defaults, arrCalls>>

\* Mutant: the argument is copied (pass by value).
CallAgainCopy ==
  /\ AtStmt("again")
  /\ Invoke(Append(heap, heap[received[prog[ip].idx]]), Len(heap) + 1)
  /\ UNCHANGED <<defaults, arrCalls>>

\* test(x): a is bound to the object the caller's variable refers to.
CallAgain ==
  /\ AtStmt("again")
  /\ Invoke(heap, received[prog[ip].idx])
  /\ UNCHANGED <<defaults, arrCalls>>

\* test(5): a is bound to an int object.
CallNonList ==
  /\ AtStmt("nonlist")
  /\ Invoke(Append(heap, IntObj(5)), Len(heap) + 1)
  /\ UNCHANGED <<defaults, arrCalls>>

\* End of the script.
Exit ==
  /\ pc = "call"
  /\ ip > Len(prog)
  /\ pc' = "done"
  /\ UNCHANGED <<prog, ip, heap, defaults, arrCalls, received, out, ret, err>>

Next ==
  \/ DefArr
  \/ DefTest
  \/ CallOmitted
  \/ CallLiteral
  \/ CallAgain
  \/ CallNonList
  \/ Exit

Spec == Init /\ [][Next]_vars

\* The interpreter runs the script to completion.
FairSpec == Spec /\ WF_vars(Next)

(***************************************************************************)
(* Vocabulary of the properties                                            *)
(***************************************************************************)

\* Number of calls to test that have returned.
Completed == ip - 1

\* The definition of test has been executed.
Defined == pc \notin {"def_arr", "def_test"}

Fours(k) == [i \in 1..k |-> 4]

\* Number of omitted-argument calls among the first n statements.
OmitCount(n) == Cardinality({i \in 1..n : prog[i].kind = "omit"})

\* The statement whose list instance call j receives (j itself for a literal).
Root(j) == IF prog[j].kind = "again" THEN prog[j].idx ELSE j

\* Number of calls among the first n statements that receive the instance of r.
UseCount(r, n) ==
  Cardinality({i \in 1..n : prog[i].kind \in {"lit", "again"} /\ Root(i) = r})

Elems(s) == {s[i] : i \in DOMAIN s}

AtCall == pc = "call" /\ ip <= Len(prog)

Expected == <<"[1, 2, 3, 4]", "[8, 9, 10, 4]", "[1, 2, 3, 4, 4]">>

(***************************************************************************)
(* C1                                                                      *)
(***************************************************************************)

\* C1: running the driver test(); test([8,9,10]); test() prints one line per
\* completed call, the lines are in order [1, 2, 3, 4], [8, 9, 10, 4],
\* [1, 2, 3, 4, 4], exactly these three once the script has ended, and the
\* third line is not [1, 2, 3, 4].
C1_DriverOutput ==
  prog = Driver =>
    /\ Len(out) = Completed
    /\ Len(out) <= 3
    /\ out = SubSeq(Expected, 1, Len(out))
    /\ (pc = "done" => out = Expected)
    /\ (Len(out) = 3 => out[3] # "[1, 2, 3, 4]")

C1_Witness == prog = Driver /\ pc = "done" /\ Len(out) = 3

(***************************************************************************)
(* C2                                                                      *)
(***************************************************************************)

\* C2: arr() has not been invoked and test has not been called before test is
\* defined; from the definition on the count of arr() invocations is 1 whatever
\* calls follow, and all omitted-argument calls receive one and the same
\* instance, the stored default.
C2_ArrCalledOnce ==
  /\ ~Defined => (arrCalls = 0 /\ received = <<>>)
  /\ Defined => (arrCalls = 1 /\ defaults \in DOMAIN heap)
  /\ \A i \in 1..Len(received) :
       prog[i].kind = "omit" =>
         /\ received[i] = defaults
         /\ \A j \in 1..Len(received) :
              prog[j].kind = "omit" => received[j] = received[i]

C2_Witness ==
  /\ arrCalls = 1
  /\ \E i, j, k \in 1..Completed :
       /\ i < k /\ k < j
       /\ prog[i].kind = "omit" /\ prog[j].kind = "omit"
       /\ prog[k].kind = "lit"

(***************************************************************************)
(* C3                                                                      *)
(***************************************************************************)

\* C3 (as amended): a call that supplies an explicit sequence leaves the stored
\* default the same instance with the same contents, and an omitted-argument
\* call that directly follows explicit calls prints exactly what it would have
\* printed without them: [1, 2, 3] and one 4 per omitted-argument call so far.
C3_ExplicitFramesDefault ==
  [][ /\ (AtCall /\ prog[ip].kind \in {"lit", "again"}) =>
          /\ defaults' = defaults
          /\ heap'[defaults'] = heap[defaults]
      /\ (AtCall /\ prog[ip].kind = "omit" /\ ip > 1
           /\ prog[ip - 1].kind \in {"lit", "again"}) =>
          /\ Len(out') = Len(out) + 1
          /\ out'[Len(out')] = repr(<<1, 2, 3>> \o Fours(OmitCount(ip)))
    ]_vars

C3_Witness ==
  \E j \in 1..Completed :
    /\ j > 1
    /\ prog[j].kind = "omit"
    /\ prog[j - 1].kind = "lit"
    /\ prog[j - 1].val # <<>>

\* C3 (original wording): the output of the omitted-argument call that follows
\* an explicit call contains none of the elements of the explicit sequence.
C3_Original ==
  \A j \in 1..Completed :
    (/\ j > 1
     /\ j = Completed
     /\ prog[j].kind = "omit"
     /\ prog[j - 1].kind = "lit") =>
       /\ out[j] = repr(heap[defaults].items)
       /\ Elems(heap[defaults].items) \cap Elems(prog[j - 1].val) = {}

(***************************************************************************)
(* C4                                                                      *)
(***************************************************************************)

\* C4: once k omitted-argument calls have returned the default holds [1, 2, 3]
\* followed by k fours, and the n-th omitted-argument call printed [1, 2, 3]
\* followed by n fours.
C4_DefaultAccumulates ==
  Defined =>
    /\ heap[defaults].items = <<1, 2, 3>> \o Fours(OmitCount(Completed))
    /\ \A i \in 1..Completed :
         prog[i].kind = "omit" =>
           /\ Len(out) >= i
           /\ out[i] = repr(<<1, 2, 3>> \o Fours(OmitCount(i)))

C4_Witness ==
  /\ OmitCount(Completed) = 2
  /\ \E i \in 1..Completed : prog[i].kind = "lit"
  /\ heap[defaults].items = <<1, 2, 3, 4, 4>>

(***************************************************************************)
(* C5                                                                      *)
(***************************************************************************)

\* C5: the first omitted-argument call receives the object built when test was
\* defined and prints [1, 2, 3, 4], whatever explicit calls came before it.
C5_FirstOmittedCall ==
  \A i \in 1..Completed :
    (/\ prog[i].kind = "omit"
     /\ \A j \in 1..(i - 1) : prog[j].kind # "omit") =>
       /\ Len(received) >= i
       /\ received[i] = 1
       /\ Len(out) >= i
       /\ out[i] = "[1, 2, 3, 4]"

C5_Witness ==
  /\ Completed = 3
  /\ prog[1].kind = "lit"
  /\ prog[2].kind \in {"lit", "again"}
  /\ prog[3].kind = "omit"
  /\ out[3] = "[1, 2, 3, 4]"

(***************************************************************************)
(* C6                                                                      *)
(***************************************************************************)

\* C6: a call that receives a list leaves that same instance one element
\* longer, with 4 as the new last element and the earlier elements unchanged,
\* touches no other object, returns None, and prints one line, the contents
\* after the append.
C6_AppendsFourInPlace ==
  [][ (AtCall /\ prog[ip].kind # "nonlist") =>
        /\ Len(received') = ip
        /\ LET o      == received'[ip]
               before == IF o \in DOMAIN heap THEN heap[o].items
                                              ELSE prog[ip].val
               after  == heap'[o].items
           IN /\ Len(after) = Len(before) + 1
              /\ after[Len(after)] = 4
              /\ SubSeq(after, 1, Len(before)) = before
              /\ \A q \in DOMAIN heap : q # o => heap'[q] = heap[q]
              /\ out' = Append(out, repr(after))
              /\ ret' = "None"
    ]_vars

C6_Witness ==
  /\ Completed = 3
  /\ \E i, j, k \in 1..3 :
       /\ prog[i].kind = "omit"
       /\ prog[j].kind = "lit" /\ prog[j].val = <<>>
       /\ prog[k].kind = "again"
  /\ Len(out) = 3

(***************************************************************************)
(* C7                                                                      *)
(***************************************************************************)

\* C7: the driver never reaches the error state, every call it has completed
\* returned None, and it runs on to the end of the script with exactly its
\* three calls completed.
C7_DriverNoError ==
  /\ [](prog = Driver =>
          /\ pc # "error"
          /\ err = "none"
          /\ (Completed >= 1 => ret = "None")
          /\ (pc = "done" => Completed = 3))
  /\ ((prog = Driver /\ pc = "def_arr") ~> (pc = "done" /\ Completed = 3))

C7_Witness ==
  prog = Driver /\ pc = "done" /\ err = "none" /\ ret = "None" /\ ip = 4

(***************************************************************************)
(* C8                                                                      *)
(***************************************************************************)

\* C8: an explicit list is received by reference.  Every call passing the
\* instance created by statement r receives that very instance; the m-th such
\* call prints the original contents followed by m fours, and the instance
\* holds one 4 per call it was passed to.  Distinct literals are distinct
\* instances, so equal contents do not make them share appended elements.
C8_PassedByReference ==
  /\ \A j \in 1..Completed :
       prog[j].kind \in {"lit", "again"} =>
         LET r == Root(j) IN
         /\ Len(received) >= j
         /\ received[j] = received[r]
         /\ Len(out) >= j
         /\ out[j] = repr(prog[r].val \o Fours(UseCount(r, j)))
         /\ heap[received[r]].items =
              prog[r].val \o Fours(UseCount(r, Completed))
  /\ \A i, j \in 1..Completed :
       (i # j /\ prog[i].kind = "lit" /\ prog[j].kind = "lit") =>
         received[i] # received[j]

C8_Witness ==
  /\ Completed = 3
  /\ prog[1].kind = "lit"
  /\ prog[2] = Again(1)
  /\ prog[3] = prog[1]
  /\ received[1] = received[2]
  /\ received[3] # received[1]
  /\ heap[received[1]].items = prog[1].val \o <<4, 4>>
  /\ heap[received[3]].items = prog[1].val \o <<4>>

(***************************************************************************)
(* C9                                                                      *)
(***************************************************************************)

\* C9: once test is defined the default is never replaced and never gets
\* shorter, its first three elements stay 1, 2, 3, and no two omitted-argument
\* calls print the same line.
C9_DefaultNeverReset ==
  /\ [](Defined =>
          /\ Len(heap[defaults].items) >= 3
          /\ SubSeq(heap[defaults].items, 1, 3) = <<1, 2, 3>>
          /\ \A i, j \in 1..Completed :
               (i < j /\ prog[i].kind = "omit" /\ prog[j].kind = "omit") =>
                 (Len(out) >= j /\ out[i] # out[j]))
  /\ [][Defined =>
          /\ defaults' = defaults
          /\ Len(heap'[defaults'].items) >= Len(heap[defaults].items)]_vars

C9_Witness ==
  /\ Completed = 3
  /\ prog[1].kind = "omit"
  /\ prog[2].kind = "omit"
  /\ prog[3].kind = "omit"
  /\ Len(heap[defaults].items) = 6

====
